---- MODULE Spec2Model ----
(***************************************************************************)
(* File-Upload-Service: the upload/ingest pipeline (handlers.rs), the      *)
(* storage abstraction (storage/) and the metadata table, as a state       *)
(* machine.  Request handlers are tasks; one action of the model is the    *)
(* code a handler runs between two suspension points (.await) that touch   *)
(* the database or the storage backend.                                    *)
(***************************************************************************)
EXTENDS Naturals, Sequences, FiniteSets, TLC

(***************************************************************************)
(* Bounds of the model.                                                    *)
(***************************************************************************)
\* config.max_file_size, scaled down (the code only compares lengths with it).
MaxFileSize == 2
\* Number of UUIDs the service mints (uploads that pass the validation).
MaxIds == 2
\* Number of infrastructure faults (a failing database or storage call, a
\* malformed stream, a dropped connection) injected in one run.
MaxFaults == 1

\* The request tasks that may overlap in time.
Slots == {"t1", "t2"}

(***************************************************************************)
(* Option<T>: None is the empty tuple, Some(x) the one-element tuple.      *)
(***************************************************************************)
None == <<>>
Some(x) == <<x>>
is_some(o) == o # <<>>
unwrap_or(o, d) == IF o = <<>> THEN d ELSE o[1]

(***************************************************************************)
(* Strings.                                                                *)
(***************************************************************************)
CharAt(s, i) == SubSeq(s, i, i)

starts_with(s, p) == Len(s) >= Len(p) /\ SubSeq(s, 1, Len(p)) = p

\* str::strip_prefix: Some(rest) when s starts with p, None otherwise.
strip_prefix(s, p) ==
    IF starts_with(s, p) THEN Some(SubSeq(s, Len(p) + 1, Len(s))) ELSE None

UpperChars == "ABCDEFGHIJKLMNOPQRSTUVWXYZ"
LowerChars == "abcdefghijklmnopqrstuvwxyz"

lower_char(c) ==
    IF \E k \in 1..Len(UpperChars) : CharAt(UpperChars, k) = c
    THEN CharAt(LowerChars, CHOOSE k \in 1..Len(UpperChars) : CharAt(UpperChars, k) = c)
    ELSE c

RECURSIVE to_lowercase(_)
to_lowercase(s) ==
    IF s = "" THEN "" ELSE lower_char(CharAt(s, 1)) \o to_lowercase(SubSeq(s, 2, Len(s)))

\* Position of the last occurrence of character c in s, 0 when there is none.
RECURSIVE LastIndexOf(_, _, _)
LastIndexOf(s, c, i) ==
    IF i = 0 THEN 0
    ELSE IF CharAt(s, i) = c THEN i ELSE LastIndexOf(s, c, i - 1)

\* Position of the first occurrence of character c in s, 0 when there is none.
RECURSIVE FirstIndexOf(_, _, _)
FirstIndexOf(s, c, i) ==
    IF i > Len(s) THEN 0
    ELSE IF CharAt(s, i) = c THEN i ELSE FirstIndexOf(s, c, i + 1)

\* s split at every '/': the sequence of its (possibly empty) pieces.
RECURSIVE SplitSlash(_)
SplitSlash(s) ==
    LET k == FirstIndexOf(s, "/", 1)
    IN  IF k = 0 THEN << s >>
        ELSE << SubSeq(s, 1, k - 1) >> \o SplitSlash(SubSeq(s, k + 1, Len(s)))

RECURSIVE JoinSlash(_)
JoinSlash(cs) ==
    IF cs = << >> THEN ""
    ELSE IF Len(cs) = 1 THEN cs[1]
    ELSE cs[1] \o "/" \o JoinSlash(Tail(cs))

(***************************************************************************)
(* std::path::Path (Unix).  Components drops empty pieces (repeated or     *)
(* trailing separators) and "." pieces; a leading "." of a relative path   *)
(* is kept by the library but never is the last component of a longer     *)
(* path, so it is dropped here except when it is the whole path.           *)
(***************************************************************************)
RECURSIVE DropNoise(_)
DropNoise(cs) ==
    IF cs = << >> THEN << >>
    ELSE IF cs[1] = "" \/ cs[1] = "." THEN DropNoise(Tail(cs))
    ELSE << cs[1] >> \o DropNoise(Tail(cs))

Components(path) == DropNoise(SplitSlash(path))

\* Path::file_name: the last component when it is a normal one.
file_name(path) ==
    LET cs == Components(path)
    IN  IF cs = << >> THEN None
        ELSE IF cs[Len(cs)] = ".." THEN None
        ELSE Some(cs[Len(cs)])

\* Path::extension: the part of file_name after its last '.', absent when
\* there is no '.' or when the only '.' is the first character.
path_extension(path) ==
    LET fname == file_name(path)
    IN  IF fname = None THEN None
        ELSE LET f == fname[1]
                 k == LastIndexOf(f, ".", Len(f))
             IN  IF k = 0 \/ k = 1 THEN None
                 ELSE Some(SubSeq(f, k + 1, Len(f)))

\* The filesystem's resolution of a relative path (no symbolic links, every
\* directory named before a ".." exists): "." and empty pieces are skipped,
\* ".." removes the piece before it.
RECURSIVE ResolveComponents(_, _)
ResolveComponents(cs, acc) ==
    IF cs = << >> THEN acc
    ELSE IF cs[1] = "" \/ cs[1] = "." THEN ResolveComponents(Tail(cs), acc)
    ELSE IF cs[1] = ".."
         THEN IF acc # << >> /\ acc[Len(acc)] # ".."
              THEN ResolveComponents(Tail(cs), SubSeq(acc, 1, Len(acc) - 1))
              ELSE ResolveComponents(Tail(cs), acc \o << ".." >>)
    ELSE ResolveComponents(Tail(cs), acc \o << cs[1] >>)

ResolvePath(path) == JoinSlash(ResolveComponents(SplitSlash(path), << >>))

(***************************************************************************)
(* utils.rs                                                                *)
(***************************************************************************)
\* The extension as the client wrote it, not lowercased.
extension_as_written(filename) == path_extension(filename)

get_file_extension(filename) ==
    LET ext == path_extension(filename)
    IN  IF ext = None THEN None ELSE Some(to_lowercase(ext[1]))

\* SHA-256 of the bytes as lowercase hex: an injective tag of the bytes
\* (collisions are not modelled).
calculate_sha256(data) == << "sha256", data >>

\* A MIME test that takes nothing for an image.
never_image(mime_type) == FALSE

\* A MIME test that takes everything for an image.
any_image(mime_type) == TRUE

is_file_mime_type(mime_type) == starts_with(mime_type, "image/")

\* image::load_from_memory succeeds on the payloads that start with the
\* PNG signature byte.
PngMagic == 137
DecodableImage(data) == data # << >> /\ data[1] = PngMagic

\* The rendered JPEG of a decodable image: starts with FF D8.
RenderThumbnail(data) == << 255, 216 >> \o data


(***************************************************************************)
(* State.                                                                  *)
(***************************************************************************)
VARIABLES
    use_s3,     \* config.use_s3: the backend chosen at boot
    files,      \* the rows of table files (models.rs File)
    blobs,      \* the storage backend: object (S3 key / resolved local path) -> bytes
    nextId,     \* the UUIDs minted so far are 1 .. nextId - 1
    task,       \* per request slot: the handler's position, its locals, its last response
    accepted,   \* history: the uploads answered 200 (what was sent, which id was returned)
    gone,       \* history: the ids for which a DELETE answered 204
    traversed,  \* history: a blob key that does not resolve to itself was written to
    faults      \* the number of infrastructure faults injected so far

vars == << use_s3, files, blobs, nextId, task, accepted, gone, traversed, faults >>

(***************************************************************************)
(* config.rs                                                               *)
(***************************************************************************)
\* The default ALLOWED_EXTENSIONS list, lowercased at load.
allowed_extensions == { "jpg", "jpeg", "png", "gif", "pdf", "doc", "docx", "txt" }

storage_type == IF use_s3 THEN "s3" ELSE "local"

(***************************************************************************)
(* storage/: one object space per backend.  Local addresses the file that  *)
(* "uploads/{key}" resolves to, S3 the key verbatim.                       *)
(***************************************************************************)
base_path == "uploads"

get_full_path(file_path) == base_path \o "/" \o file_path

ObjectOf(key) == IF use_s3 THEN key ELSE ResolvePath(get_full_path(key))

\* The locator upload returns on success.
UploadLocator(key) == IF use_s3 THEN "s3://" \o key ELSE get_full_path(key)

EmptyStore == [o \in {} |-> << >>]

Put(store, obj, content) ==
    [o \in DOMAIN store \cup {obj} |-> IF o = obj THEN content ELSE store[o]]

Remove(store, obj) == [o \in DOMAIN store \ {obj} |-> store[o]]

\* The key names another object than the one spelled out in it (Local only:
\* a ".." in the key is resolved by the filesystem).
Traverses(key) == ObjectOf(key) # (IF use_s3 THEN key ELSE get_full_path(key))

\* An upload that reports success and writes nothing.
UploadWritesNothing(store, key, content) == store

\* Storage::upload succeeded: the object holds exactly the content.
StorageUpload(store, key, content) == Put(store, ObjectOf(key), content)

StrictPrefixes(content) == { SubSeq(content, 1, n) : n \in 0..(Len(content) - 1) }

\* Storage::upload failed.  S3 PutObject leaves the bucket as it was; Local
\* may have failed before the file was created, or after File::create
\* truncated it and write_all wrote only a part.
StorageUploadFailed(store, key, content) ==
    IF use_s3 THEN { store }
    ELSE { store } \cup { Put(store, ObjectOf(key), p) : p \in StrictPrefixes(content) }

\* A backend that finds no object under any key.
DownloadFindsNothing(store, key) == None

\* Storage::download without an I/O fault: the bytes, or None (NotFound).
StorageDownload(store, key) ==
    IF ObjectOf(key) \in DOMAIN store THEN Some(store[ObjectOf(key)]) ELSE None

\* Storage::delete succeeded: Local removes the file if it exists, S3
\* DeleteObject succeeds on absent keys too.
StorageDelete(store, key) == Remove(store, ObjectOf(key))

(***************************************************************************)
(* handlers.rs: path normalisation (stored locator -> backend key).        *)
(***************************************************************************)
\* A handler that hands the stored locator to the backend as it is.
KeepLocator(stype, locator) == locator

NormalizePath(stype, locator) ==
    IF stype = "s3" THEN unwrap_or(strip_prefix(locator, "s3://"), locator)
    ELSE unwrap_or(strip_prefix(locator, "uploads/"), locator)

\* delete_file's normalisation of the thumbnail locator: its local branch
\* falls back to file.file_path, not to thumb_path.
DeleteThumbPath(file) ==
    IF file.storage_type = "s3"
    THEN unwrap_or(strip_prefix(file.thumbnail_path[1], "s3://"), file.thumbnail_path[1])
    ELSE unwrap_or(strip_prefix(file.thumbnail_path[1], "uploads/"), file.file_path)


(***************************************************************************)
(* Requests.  A multipart form is a sequence of fields; a field has a      *)
(* name, an optional file name and content type, and a body (bytes of a    *)
(* file part, text of a text part; text is None when the body is not       *)
(* UTF-8).                                                                 *)
(***************************************************************************)
Fill(b, n) == [i \in 1..n |-> b]

AtLimit == Fill(65, MaxFileSize)        \* a payload of exactly max_file_size bytes
Oversize == Fill(65, MaxFileSize + 1)   \* one byte more
PngData == << PngMagic >>               \* a decodable image, below the limit

FilePart(fname, ctype, data) ==
    [name |-> "file", file_name |-> fname, content_type |-> ctype, data |-> data, text |-> None]

TextPart(name, text) ==
    [name |-> name, file_name |-> None, content_type |-> None, data |-> << >>, text |-> text]

FileParts ==
    {   \* accepted by the validation
        FilePart(Some("a.txt"), Some("text/plain"), PngData),
        FilePart(Some("A.TXT"), Some("image/png"), AtLimit),
        FilePart(Some("p.png"), Some("image/png"), PngData),
        FilePart(Some("a.txt"), None, AtLimit),
        \* rejected by it
        FilePart(None, Some("text/plain"), AtLimit),
        FilePart(Some("a.txt"), Some("text/plain"), Oversize),
        FilePart(Some("b.exe"), Some("text/plain"), Oversize),
        FilePart(Some("noext"), Some("text/plain"), Oversize),
        FilePart(Some("b.exe"), Some("text/plain"), AtLimit),
        FilePart(Some("noext"), Some("text/plain"), AtLimit),
        FilePart(Some(".bashrc"), Some("text/plain"), AtLimit)
    }

\* Texts a client may send in the filename field (None: the body is not UTF-8).
PlainTexts == { Some(""), Some("doc"), None }

\* The text is chosen freely by the client, so it may also name, through "..",
\* the stored name of an existing record (names that already hold a '/' are
\* left out: they reach the same places).  An S3 key is not resolved, so
\* there such a text is one more text like "doc" and is not sent.
TraversalTexts ==
    IF use_s3 THEN {}
    ELSE { Some("/../" \o f.filename) : f \in { g \in files : FirstIndexOf(g.filename, "/", 1) = 0 } }

\* The forms built from the given file parts and filename texts: the fields in
\* either order, alone, and with an unknown field.
FormsOver(parts, texts) ==
    { << f >> : f \in parts }
    \cup { << f, TextPart("filename", t) >> : f \in parts, t \in texts }
    \cup { << TextPart("filename", t), f >> : f \in parts, t \in texts }
    \cup { << TextPart("note", Some("x")), f >> : f \in parts }

\* Forms without a file part.
FormsWithoutFile ==
    { << >>, << TextPart("note", Some("x")) >> }
    \cup { << TextPart("filename", t) >> : t \in PlainTexts }

\* Any UUID a client may name in a path.
Ids == 1..MaxIds

(***************************************************************************)
(* upload_file, lines 16-50: the loop over the fields.                     *)
(***************************************************************************)
NoForm ==
    [file_data |-> None, original_filename |-> None, mime_type |-> None,
     file_size |-> 0, custom_filename |-> None]

\* A loop that keeps an empty filename text like any other text.
ParseFieldKeepsEmpty(acc, field) ==
    IF field.name = "file"
    THEN [acc EXCEPT !.original_filename = field.file_name,
                     !.mime_type = field.content_type,
                     !.file_size = Len(field.data),
                     !.file_data = Some(field.data)]
    ELSE IF field.name = "filename" /\ field.text # None
    THEN [acc EXCEPT !.custom_filename = field.text]
    ELSE acc

ParseField(acc, field) ==
    IF field.name = "file"
    THEN [acc EXCEPT !.original_filename = field.file_name,
                     !.mime_type = field.content_type,
                     !.file_size = Len(field.data),
                     !.file_data = Some(field.data)]
    ELSE IF field.name = "filename"
    THEN IF field.text # None /\ field.text[1] # ""
         THEN [acc EXCEPT !.custom_filename = field.text]
         ELSE acc
    ELSE acc

RECURSIVE ParseFields(_, _)
ParseFields(acc, fields) ==
    IF fields = << >> THEN acc
    ELSE ParseFields(ParseField(acc, Head(fields)), Tail(fields))

ParseMultipart(fields) == ParseFields(NoForm, fields)

(***************************************************************************)
(* Responses.  status 0: the request got no response (cancelled, or the    *)
(* handler panicked).                                                      *)
(***************************************************************************)
Resp(status, error, json, body, ctype) ==
    [status |-> status, error |-> error, json |-> json, body |-> body,
     content_type |-> ctype]

NoResp == Resp(0, "", None, None, "")
ErrorResp(status, msg) == Resp(status, msg, None, None, "")

\* error.rs: sqlx errors answer 500 with a generic body.
DatabaseError == ErrorResp(500, "Database error")

(***************************************************************************)
(* upload_file, lines 52-81: presence, size and extension checks, in this  *)
(* order.  None when the form passes.                                      *)
(***************************************************************************)
max_file_size == MaxFileSize

\* A size check that lets everything through.
NeverExceeds(file_size) == FALSE

\* A size check that also turns away a file of exactly the limit.
ExceedsOrEquals(file_size) == file_size >= max_file_size

SizeExceeds(file_size) == file_size > max_file_size

ExtensionAllowed(extension) == extension \in allowed_extensions

\* The checks with the extension looked at before the size.
ExtensionBeforeSize(form) ==
    IF form.file_data = None \/ form.original_filename = None
    THEN Some(ErrorResp(400, "No file provided"))
    ELSE IF get_file_extension(form.original_filename[1]) = None
    THEN Some(ErrorResp(400, "Invalid file extension"))
    ELSE IF ~ExtensionAllowed(get_file_extension(form.original_filename[1])[1])
    THEN Some(ErrorResp(415, "File extension ."
                                \o get_file_extension(form.original_filename[1])[1]
                                \o " is not allowed"))
    ELSE IF SizeExceeds(form.file_size)
    THEN Some(ErrorResp(413, "File size " \o ToString(form.file_size)
                                \o " exceeds maximum limit of "
                                \o ToString(max_file_size) \o " bytes"))
    ELSE None

ValidationError(form) ==
    IF form.file_data = None \/ form.original_filename = None
    THEN Some(ErrorResp(400, "No file provided"))
    ELSE IF SizeExceeds(form.file_size)
    THEN Some(ErrorResp(413, "File size " \o ToString(form.file_size)
                                \o " exceeds maximum limit of "
                                \o ToString(max_file_size) \o " bytes"))
    ELSE IF get_file_extension(form.original_filename[1]) = None
    THEN Some(ErrorResp(400, "Invalid file extension"))
    ELSE IF ~ExtensionAllowed(get_file_extension(form.original_filename[1])[1])
    THEN Some(ErrorResp(415, "File extension ."
                                \o get_file_extension(form.original_filename[1])[1]
                                \o " is not allowed"))
    ELSE None

\* The requests the model sends: parsed by the handler's loop, split by the
\* outcome of the checks.
RejectedForms ==
    { form \in { ParseMultipart(fields) :
                   fields \in FormsWithoutFile \cup FormsOver(FileParts, {}) } :
        ValidationError(form) # None }

PassingParts == { f \in FileParts : ValidationError(ParseMultipart(<< f >>)) = None }

PlainForms ==
    { form \in { ParseMultipart(fields) : fields \in FormsOver(FileParts, PlainTexts) } :
        ValidationError(form) = None }

\* The requests that reach line 84.  The filename text plays no part in the
\* checks, so a passing file part passes with any text.
PassingForms ==
    PlainForms \cup { ParseMultipart(fields) : fields \in FormsOver(PassingParts, TraversalTexts) }

(***************************************************************************)
(* upload_file, lines 83-93: identity and fingerprint.                     *)
(***************************************************************************)
IdText(id) == ToString(id)

\* A stored name that leaves the minted id out.
FilenameWithoutId(file_id, form) ==
    IF form.custom_filename # None
    THEN form.custom_filename[1]
    ELSE "upload." \o get_file_extension(form.original_filename[1])[1]

DeriveFilename(file_id, form) ==
    IF form.custom_filename # None
    THEN IdText(file_id) \o "_" \o form.custom_filename[1]
    ELSE IdText(file_id) \o "." \o get_file_extension(form.original_filename[1])[1]

BlobKey(filename) == "files/" \o filename

ThumbKey(file_id) == "thumbnails/" \o IdText(file_id) \o ".jpg"

\* A probe that never finds a row: the pipeline without its deduplication.
ProbeFindsNothing(rows, checksum) == {}

\* SELECT * FROM files WHERE checksum = $1 LIMIT 1: the rows it may return.
FindByChecksum(rows, checksum) == { f \in rows : f.checksum = Some(checksum) }

\* SELECT * FROM files WHERE id = $1.
FindById(rows, id) == { f \in rows : f.id = id }

\* A response that names another id than the row's.
UploadResponseOtherId(id, filename, size, mime_type) ==
    [id |-> id + 1, filename |-> filename, url |-> "/files/" \o IdText(id + 1),
     size |-> size, mime_type |-> mime_type]

UploadResponse(id, filename, size, mime_type) ==
    [id |-> id, filename |-> filename, url |-> "/files/" \o IdText(id),
     size |-> size, mime_type |-> mime_type]

(***************************************************************************)
(* Request slots.                                                          *)
(***************************************************************************)
NoReq == [op |-> "none", id |-> 0, form |-> NoForm]

UploadReq(form) == [op |-> "upload", id |-> 0, form |-> form]
IdReq(op, id) == [op |-> op, id |-> id, form |-> NoForm]

\* A slot with no request.
Idle == [pc |-> "idle", req |-> NoReq, loc |-> None, resp |-> NoResp]
\* A slot inside a handler, with the handler's locals.
Running(pc, req, loc) == [pc |-> pc, req |-> req, loc |-> Some(loc), resp |-> NoResp]
\* A slot whose handler returned: the request, the locals the handler had
\* (None when it returned before its first suspension point) and the
\* response being sent.
Answered(req, loc, resp) == [pc |-> "done", req |-> req, loc |-> loc, resp |-> resp]

Accepted(id, form, dedup) ==
    [id |-> id, data |-> form.file_data[1], mime |-> form.mime_type,
     name |-> form.original_filename[1], dedup |-> dedup]

Init ==
    /\ use_s3 \in BOOLEAN
    /\ files = {}
    /\ blobs = EmptyStore
    /\ nextId = 1
    /\ task = [r \in Slots |-> Idle]
    /\ accepted = {}
    /\ gone = {}
    /\ traversed = FALSE
    /\ faults = 0


(***************************************************************************)
(* POST /upload (upload_file).                                             *)
(***************************************************************************)
Done(r, req, resp) == task' = [task EXCEPT ![r] = Answered(req, task[r].loc, resp)]

\* An infrastructure fault is injected in this step.
Fault == faults < MaxFaults /\ faults' = faults + 1
NoFault == faults' = faults

\* Lines 24-36: the multipart stream is malformed (400) or the body of the
\* file part cannot be read (500); nothing was looked at yet.  The messages
\* go on with the library's error text, which is left out.
UploadParseFail(r) ==
    /\ task[r].pc = "idle"
    /\ \E resp \in { ErrorResp(400, "Failed to parse multipart form"),
                     ErrorResp(500, "Failed to read the file") } :
           Done(r, UploadReq(NoForm), resp)
    /\ UNCHANGED << use_s3, files, blobs, nextId, accepted, gone, traversed >>
    /\ Fault

\* Lines 52-81: a check fails and the handler returns its error.
UploadRejected(r) ==
    /\ task[r].pc = "idle"
    /\ \E form \in RejectedForms :
           /\ ValidationError(form) # None
           /\ Done(r, UploadReq(form), ValidationError(form)[1])
    /\ UNCHANGED << use_s3, files, blobs, nextId, accepted, gone, traversed >>
    /\ NoFault

\* The locals of a request that passed the checks (lines 84-93).
UploadLocals(file_id, form) ==
    [file_id |-> file_id,
     filename |-> DeriveFilename(file_id, form),
     file_path |-> BlobKey(DeriveFilename(file_id, form)),
     checksum |-> calculate_sha256(form.file_data[1]),
     storage_path |-> "",
     thumbnail_path |-> None]

\* Lines 96-101: the checksum probe fails with a database error.
UploadProbeFail(r) ==
    /\ task[r].pc = "idle"
    /\ nextId <= MaxIds
    /\ \E form \in PassingForms :
           /\ Done(r, UploadReq(form), DatabaseError)
    /\ nextId' = nextId + 1
    /\ UNCHANGED << use_s3, files, blobs, accepted, gone, traversed >>
    /\ Fault

\* Lines 96-111: the probe finds a row with the checksum; the handler
\* answers with that row and is done.
UploadDedup(r) ==
    /\ task[r].pc = "idle"
    /\ nextId <= MaxIds
    /\ \E form \in PassingForms :
               /\ \E existing \in FindByChecksum(files, calculate_sha256(form.file_data[1])) :
                      /\ Done(r, UploadReq(form),
                              Resp(200, "",
                                   Some(UploadResponse(existing.id, existing.filename,
                                                       existing.file_size, existing.mime_type)),
                                   None, ""))
                      /\ accepted' = accepted \cup { Accepted(existing.id, form, TRUE) }
    /\ nextId' = nextId + 1
    /\ UNCHANGED << use_s3, files, blobs, gone, traversed >>
    /\ NoFault

\* Lines 84-111: the probe finds nothing; the handler goes on to the blob
\* write under the id it minted.
UploadProbeMiss(r) ==
    /\ task[r].pc = "idle"
    /\ nextId <= MaxIds
    /\ \E form \in PassingForms :
               /\ FindByChecksum(files, calculate_sha256(form.file_data[1])) = {}
               /\ task' = [task EXCEPT ![r] =
                              Running("upload_blob", UploadReq(form), UploadLocals(nextId, form))]
    /\ nextId' = nextId + 1
    /\ UNCHANGED << use_s3, files, blobs, accepted, gone, traversed >>
    /\ NoFault

\* Line 123: mime_type.clone().unwrap() panics when the part had no content type.
MimePanics(form) == form.mime_type = None

\* Lines 114-123: storage.upload of the primary blob succeeds.  Then the
\* handler evaluates the thumbnail condition, which panics on an absent
\* content type: the task dies without a response.
UploadBlob(r) ==
    /\ task[r].pc = "upload_blob"
    /\ LET form == task[r].req.form
           loc == task[r].loc[1]
       IN  /\ blobs' = StorageUpload(blobs, loc.file_path, form.file_data[1])
           /\ traversed' = (traversed \/ Traverses(loc.file_path))
           /\ IF MimePanics(form)
              THEN Done(r, task[r].req, NoResp)
              ELSE task' = [task EXCEPT ![r] =
                      Running(IF is_file_mime_type(form.mime_type[1])
                              THEN "upload_thumb" ELSE "upload_insert",
                              task[r].req,
                              [loc EXCEPT !.storage_path = UploadLocator(loc.file_path)])]
    /\ UNCHANGED << use_s3, files, nextId, accepted, gone >>
    /\ NoFault

\* Lines 114-120: storage.upload of the primary blob fails.
UploadBlobFail(r) ==
    /\ task[r].pc = "upload_blob"
    /\ blobs' \in StorageUploadFailed(blobs, task[r].loc[1].file_path,
                                      task[r].req.form.file_data[1])
    /\ traversed' = (traversed \/ Traverses(task[r].loc[1].file_path))
    /\ Done(r, task[r].req, ErrorResp(500, "Failed to upload file"))
    /\ UNCHANGED << use_s3, files, nextId, accepted, gone >>
    /\ Fault

\* Lines 124-134: the image is rendered, the rendered file read and uploaded
\* to thumbnails/{file_id}.jpg.
UploadThumb(r) ==
    /\ task[r].pc = "upload_thumb"
    /\ LET form == task[r].req.form
           loc == task[r].loc[1]
       IN  /\ DecodableImage(form.file_data[1])
           /\ blobs' = StorageUpload(blobs, ThumbKey(loc.file_id),
                                     RenderThumbnail(form.file_data[1]))
           /\ task' = [task EXCEPT ![r] =
                          Running("upload_insert", task[r].req,
                                  [loc EXCEPT !.thumbnail_path = Some(ThumbKey(loc.file_id))])]
    /\ UNCHANGED << use_s3, files, nextId, accepted, gone, traversed >>
    /\ NoFault

\* A thumbnail failure that is propagated and fails the request.
UploadThumbFatal(r) ==
    /\ task[r].pc = "upload_thumb"
    /\ Done(r, task[r].req, ErrorResp(500, "Failed to generate thumbnail"))
    /\ UNCHANGED << use_s3, files, blobs, nextId, accepted, gone, traversed >>
    /\ NoFault

\* Lines 135-148: rendering fails (always for bytes that are no image, by a
\* fault otherwise), or reading the rendered file, or the thumbnail upload:
\* logged, and the record gets no thumbnail.
UploadThumbFail(r) ==
    /\ task[r].pc = "upload_thumb"
    /\ LET form == task[r].req.form
           loc == task[r].loc[1]
       IN  /\ \/ /\ ~DecodableImage(form.file_data[1])
                 /\ blobs' = blobs
                 /\ NoFault
              \/ /\ DecodableImage(form.file_data[1])
                 /\ blobs' \in StorageUploadFailed(blobs, ThumbKey(loc.file_id),
                                                   RenderThumbnail(form.file_data[1]))
                 /\ Fault
           /\ task' = [task EXCEPT ![r] = Running("upload_insert", task[r].req, loc)]
    /\ UNCHANGED << use_s3, files, nextId, accepted, gone, traversed >>

\* The row of lines 155-173.
NewFile(form, loc) ==
    [id |-> loc.file_id,
     filename |-> loc.filename,
     original_filename |-> form.original_filename[1],
     file_path |-> loc.storage_path,
     file_size |-> form.file_size,
     mime_type |-> unwrap_or(form.mime_type, "application/octet-stream"),
     storage_type |-> storage_type,
     checksum |-> Some(loc.checksum),
     thumbnail_path |-> loc.thumbnail_path]

\* INSERT INTO files ... RETURNING *: the table takes the row.  Ids are fresh,
\* and the schema puts no uniqueness constraint on checksum.
InsertFile(rows, row) == rows \cup { row }

\* Lines 155-185: the INSERT succeeds and the handler answers 200.
UploadInsert(r) ==
    /\ task[r].pc = "upload_insert"
    /\ LET form == task[r].req.form
           row == NewFile(form, task[r].loc[1])
       IN  /\ files' = InsertFile(files, row)
           /\ Done(r, task[r].req,
                   Resp(200, "",
                        Some(UploadResponse(row.id, row.filename, row.file_size, row.mime_type)),
                        None, ""))
           /\ accepted' = accepted \cup { Accepted(row.id, form, FALSE) }
    /\ UNCHANGED << use_s3, blobs, nextId, gone, traversed >>
    /\ NoFault

\* Lines 155-175: the INSERT fails; the blob stays behind.
UploadInsertFail(r) ==
    /\ task[r].pc = "upload_insert"
    /\ Done(r, task[r].req, DatabaseError)
    /\ UNCHANGED << use_s3, files, blobs, nextId, accepted, gone, traversed >>
    /\ Fault

\* The client disconnects and the task is dropped at its suspension point.
Cancel(r) ==
    /\ task[r].pc \notin { "idle", "done" }
    /\ Done(r, task[r].req, NoResp)
    /\ UNCHANGED << use_s3, files, blobs, nextId, accepted, gone, traversed >>
    /\ Fault

\* The response has been written out; the slot is free for the next request.
Return(r) ==
    /\ task[r].pc = "done"
    /\ task' = [task EXCEPT ![r] = Idle]
    /\ UNCHANGED << use_s3, files, blobs, nextId, accepted, gone, traversed >>
    /\ NoFault

Upload(r) ==
    \/ UploadParseFail(r)
    \/ UploadRejected(r)
    \/ UploadProbeFail(r)
    \/ UploadDedup(r)
    \/ UploadProbeMiss(r)
    \/ UploadBlob(r)
    \/ UploadBlobFail(r)
    \/ UploadThumb(r)
    \/ UploadThumbFail(r)
    \/ UploadInsert(r)
    \/ UploadInsertFail(r)

(***************************************************************************)
(* GET /files/{id} (get_file).                                             *)
(***************************************************************************)
FileResponse(file) ==
    [id |-> file.id,
     filename |-> file.filename,
     original_filename |-> file.original_filename,
     size |-> file.file_size,
     mime_type |-> file.mime_type,
     download_url |-> "/files/" \o IdText(file.id) \o "/download",
     thumbnail_url |-> IF file.thumbnail_path = None THEN None
                       ELSE Some("/files/" \o IdText(file.id) \o "/thumbnail")]

NotFound == ErrorResp(404, "File not found")

\* The answer of a lookup that finds no row, or fails.
LookupMiss(r, req) ==
    \/ /\ FindById(files, req.id) = {}
       /\ Done(r, req, NotFound)
       /\ NoFault
    \/ /\ Done(r, req, DatabaseError)
       /\ Fault

GetFile(r) ==
    /\ task[r].pc = "idle"
    /\ \E id \in Ids :
           LET req == IdReq("get_file", id)
           IN  \/ LookupMiss(r, req)
               \/ \E file \in FindById(files, id) :
                      /\ Done(r, req, Resp(200, "", Some(FileResponse(file)), None, ""))
                      /\ NoFault
    /\ UNCHANGED << use_s3, files, blobs, nextId, accepted, gone, traversed >>

(***************************************************************************)
(* GET /files (list_files).  The rows carry no timestamp in this model,    *)
(* so the answer is the set of the listed entries: ORDER BY uploaded_at    *)
(* is left out, and LIMIT 100 never cuts a table of at most MaxIds rows.   *)
(***************************************************************************)
\* Lines 408-419: the entry built for a listed row.
ListedFileResponse(file) ==
    [id |-> file.id,
     filename |-> file.filename,
     original_filename |-> file.original_filename,
     size |-> file.file_size,
     mime_type |-> file.mime_type,
     download_url |-> "/files/" \o IdText(file.id) \o "/download",
     thumbnail_url |-> IF file.thumbnail_path = None THEN None
                       ELSE Some("files/" \o IdText(file.id) \o "/thumbnail")]

ListReq == [op |-> "list_files", id |-> 0, form |-> NoForm]

ListFiles(r) ==
    /\ task[r].pc = "idle"
    /\ \/ /\ Done(r, ListReq,
                   Resp(200, "", Some({ ListedFileResponse(file) : file \in files }), None, ""))
          /\ NoFault
       \/ /\ Done(r, ListReq, DatabaseError)
          /\ Fault
    /\ UNCHANGED << use_s3, files, blobs, nextId, accepted, gone, traversed >>

(***************************************************************************)
(* GET /files/{id}/download (download_file).                               *)
(***************************************************************************)
DownloadLookup(r) ==
    /\ task[r].pc = "idle"
    /\ \E id \in Ids :
           LET req == IdReq("download", id)
           IN  \/ LookupMiss(r, req)
               \/ \E file \in FindById(files, id) :
                      /\ task' = [task EXCEPT ![r] = Running("download_fetch", req, file)]
                      /\ NoFault
    /\ UNCHANGED << use_s3, files, blobs, nextId, accepted, gone, traversed >>

\* A download that always sends the fallback of line 233.
ContentTypeFallback(file) == "application/octet-stream"

\* Lines 229-234: the stored MIME as header value (the MIME came out of a
\* request header, so it is a valid header value and the fallback is unused).
ContentTypeOf(file) == file.mime_type

\* Lines 204-244: the blob is read and sent with the record's MIME.
DownloadFetch(r) ==
    /\ task[r].pc = "download_fetch"
    /\ LET file == task[r].loc[1]
           content == StorageDownload(blobs, NormalizePath(file.storage_type, file.file_path))
       IN  /\ content # None
           /\ Done(r, task[r].req, Resp(200, "", None, content, ContentTypeOf(file)))
    /\ UNCHANGED << use_s3, files, blobs, nextId, accepted, gone, traversed >>
    /\ NoFault

\* Lines 221-224: storage.download fails (the blob is absent, or an I/O error).
DownloadFetchFail(r) ==
    /\ task[r].pc = "download_fetch"
    /\ LET file == task[r].loc[1]
       IN  \/ /\ StorageDownload(blobs, NormalizePath(file.storage_type, file.file_path)) = None
              /\ NoFault
           \/ Fault
    /\ Done(r, task[r].req, ErrorResp(500, "Failed to download file"))
    /\ UNCHANGED << use_s3, files, blobs, nextId, accepted, gone, traversed >>

(***************************************************************************)
(* GET /files/{id}/thumbnail (get_thummbnail).                             *)
(***************************************************************************)
ThumbnailLookup(r) ==
    /\ task[r].pc = "idle"
    /\ \E id \in Ids :
           LET req == IdReq("thumbnail", id)
           IN  \/ LookupMiss(r, req)
               \/ \E file \in FindById(files, id) :
                      /\ IF file.thumbnail_path = None
                         THEN Done(r, req, ErrorResp(404, "Thumbnail not available"))
                         ELSE task' = [task EXCEPT ![r] = Running("thumbnail_fetch", req, file)]
                      /\ NoFault
    /\ UNCHANGED << use_s3, files, blobs, nextId, accepted, gone, traversed >>

ThumbnailFetch(r) ==
    /\ task[r].pc = "thumbnail_fetch"
    /\ LET file == task[r].loc[1]
           content == StorageDownload(blobs,
                          NormalizePath(file.storage_type, file.thumbnail_path[1]))
       IN  /\ content # None
           /\ Done(r, task[r].req, Resp(200, "", None, content, "image/jpeg"))
    /\ UNCHANGED << use_s3, files, blobs, nextId, accepted, gone, traversed >>
    /\ NoFault

ThumbnailFetchFail(r) ==
    /\ task[r].pc = "thumbnail_fetch"
    /\ LET file == task[r].loc[1]
       IN  \/ /\ StorageDownload(blobs,
                     NormalizePath(file.storage_type, file.thumbnail_path[1])) = None
              /\ NoFault
           \/ Fault
    /\ Done(r, task[r].req, ErrorResp(500, "Failed to download thumbnail"))
    /\ UNCHANGED << use_s3, files, blobs, nextId, accepted, gone, traversed >>

(***************************************************************************)
(* DELETE /files/{id} (delete_file).                                       *)
(***************************************************************************)
DeleteLookup(r) ==
    /\ task[r].pc = "idle"
    /\ \E id \in Ids :
           LET req == IdReq("delete", id)
           IN  \/ LookupMiss(r, req)
               \/ \E file \in FindById(files, id) :
                      /\ task' = [task EXCEPT ![r] = Running("delete_blob", req, file)]
                      /\ NoFault
    /\ UNCHANGED << use_s3, files, blobs, nextId, accepted, gone, traversed >>

\* Lines 305-309: storage.delete of the primary blob succeeds.
DeleteBlob(r) ==
    /\ task[r].pc = "delete_blob"
    /\ LET file == task[r].loc[1]
       IN  /\ blobs' = StorageDelete(blobs, NormalizePath(file.storage_type, file.file_path))
           /\ task' = [task EXCEPT ![r] =
                          Running(IF file.thumbnail_path # None THEN "delete_thumb"
                                  ELSE "delete_row", task[r].req, file)]
    /\ UNCHANGED << use_s3, files, nextId, accepted, gone, traversed >>
    /\ NoFault

\* A failure of the primary delete that is dropped like the thumbnail's.
DeleteBlobFailSwallowed(r) ==
    /\ task[r].pc = "delete_blob"
    /\ task' = [task EXCEPT ![r] = Running("delete_row", task[r].req, task[r].loc[1])]
    /\ UNCHANGED << use_s3, files, blobs, nextId, accepted, gone, traversed >>
    /\ Fault

\* Lines 306-309: it fails, and the handler answers 500.
DeleteBlobFail(r) ==
    /\ task[r].pc = "delete_blob"
    /\ Done(r, task[r].req, ErrorResp(500, "Failed to delete file from storage"))
    /\ UNCHANGED << use_s3, files, blobs, nextId, accepted, gone, traversed >>
    /\ Fault

\* Lines 312-327: storage.delete of the thumbnail; its result is dropped.
DeleteThumb(r) ==
    /\ task[r].pc = "delete_thumb"
    /\ \/ /\ blobs' = StorageDelete(blobs, DeleteThumbPath(task[r].loc[1]))
          /\ NoFault
       \/ /\ blobs' = blobs
          /\ Fault
    /\ task' = [task EXCEPT ![r] = Running("delete_row", task[r].req, task[r].loc[1])]
    /\ UNCHANGED << use_s3, files, nextId, accepted, gone, traversed >>

\* A DELETE statement that removes nothing.
DeleteNothing(rows, id) == rows

\* DELETE FROM files WHERE id = $1.
DeleteById(rows, id) == { f \in rows : f.id # id }

\* A handler that looks at the number of rows its DELETE statement removed
\* and answers 404 when there was none.
DeleteRowChecksAffected(r) ==
    /\ task[r].pc = "delete_row"
    /\ files' = DeleteById(files, task[r].req.id)
    /\ gone' = gone \cup { task[r].req.id }
    /\ Done(r, task[r].req,
            IF FindById(files, task[r].req.id) = {} THEN NotFound
            ELSE Resp(204, "", None, None, ""))
    /\ UNCHANGED << use_s3, blobs, nextId, accepted, traversed >>
    /\ NoFault

\* Lines 330-337: the row is removed and the handler answers 204.
DeleteRow(r) ==
    /\ task[r].pc = "delete_row"
    /\ files' = DeleteById(files, task[r].req.id)
    /\ gone' = gone \cup { task[r].req.id }
    /\ Done(r, task[r].req, Resp(204, "", None, None, ""))
    /\ UNCHANGED << use_s3, blobs, nextId, accepted, traversed >>
    /\ NoFault

\* Lines 330-332: the DELETE statement fails.
DeleteRowFail(r) ==
    /\ task[r].pc = "delete_row"
    /\ Done(r, task[r].req, DatabaseError)
    /\ UNCHANGED << use_s3, files, blobs, nextId, accepted, gone, traversed >>
    /\ Fault

Download(r) == DownloadLookup(r) \/ DownloadFetch(r) \/ DownloadFetchFail(r)

Thumbnail(r) == ThumbnailLookup(r) \/ ThumbnailFetch(r) \/ ThumbnailFetchFail(r)

Delete(r) ==
    \/ DeleteLookup(r)
    \/ DeleteBlob(r)
    \/ DeleteBlobFail(r)
    \/ DeleteThumb(r)
    \/ DeleteRow(r)
    \/ DeleteRowFail(r)

Handler(r) ==
    Upload(r) \/ GetFile(r) \/ ListFiles(r) \/ Download(r) \/ Thumbnail(r) \/ Delete(r) \/ Cancel(r) \/ Return(r)

(***************************************************************************)
(* The service with one request in flight at a time.                       *)
(***************************************************************************)
Next == Handler("t1")

Spec == Init /\ [][Next]_vars

(***************************************************************************)
(* The service with two requests in flight and a healthy infrastructure:   *)
(* the handlers of both slots interleave at their suspension points, and   *)
(* no database, storage or connection fault is injected.                   *)
(***************************************************************************)
ConcInit ==
    /\ use_s3 \in BOOLEAN
    /\ files = {}
    /\ blobs = EmptyStore
    /\ nextId = 1
    /\ task = [r \in Slots |-> Idle]
    /\ accepted = {}
    /\ gone = {}
    /\ traversed = FALSE
    /\ faults = MaxFaults

ConcHandler(r) ==
    \/ UploadRejected(r)
    \/ UploadDedup(r)
    \/ UploadProbeMiss(r)
    \/ UploadBlob(r)
    \/ UploadThumb(r)
    \/ UploadThumbFail(r)
    \/ UploadInsert(r)
    \/ GetFile(r)
    \/ ListFiles(r)
    \/ Download(r)
    \/ Thumbnail(r)
    \/ DeleteLookup(r)
    \/ DeleteBlob(r)
    \/ DeleteThumb(r)
    \/ DeleteRow(r)
    \/ Return(r)

ConcNext == \E r \in Slots : ConcHandler(r)

ConcSpec == ConcInit /\ [][ConcNext]_vars

(***************************************************************************)
(* The Local backend on its own (storage/local.rs): a client of the        *)
(* Storage trait calls upload, download and delete with keys and contents  *)
(* of its choice.  LocalStorage::new has created the directories           *)
(* uploads/files and uploads/thumbnails, so a key may pass through either. *)
(* Slot "t1" holds the last call and its result.                           *)
(***************************************************************************)
StorageKeys == { "files/a", "files/b", "thumbnails/../files/a" }

RECURSIVE BytesUpTo(_)
BytesUpTo(n) ==
    IF n = 0 THEN { << >> }
    ELSE BytesUpTo(n - 1)
         \cup { Append(c, b) : c \in { d \in BytesUpTo(n - 1) : Len(d) = n - 1 }, b \in { 65, 66 } }

StorageContents == BytesUpTo(MaxFileSize)

Ok(value) == [ok |-> TRUE, value |-> Some(value), err |-> ""]
Err(kind) == [ok |-> FALSE, value |-> None, err |-> kind]

StorageCall(op, key, content, result) ==
    [pc |-> "done", req |-> [op |-> op, key |-> key, content |-> content],
     loc |-> None, resp |-> result]

StorageInit ==
    /\ use_s3 = FALSE
    /\ files = {}
    /\ blobs = EmptyStore
    /\ nextId = 1
    /\ task = [r \in Slots |-> Idle]
    /\ accepted = {}
    /\ gone = {}
    /\ traversed = FALSE
    /\ faults = 0

\* local.rs 33-50: the file is created and written, the full path returned;
\* or an I/O error, after which the file may hold a part of the content.
LocalUpload ==
    /\ \E key \in StorageKeys, content \in StorageContents :
          \/ /\ blobs' = StorageUpload(blobs, key, content)
             /\ task' = [task EXCEPT !["t1"] =
                            StorageCall("upload", key, content, Ok(UploadLocator(key)))]
             /\ NoFault
          \/ /\ blobs' \in StorageUploadFailed(blobs, key, content)
             /\ task' = [task EXCEPT !["t1"] =
                            StorageCall("upload", key, content, Err("IoError"))]
             /\ Fault
    /\ UNCHANGED << use_s3, files, nextId, accepted, gone, traversed >>

\* local.rs 53-64: NotFound when the path does not exist, else the bytes read
\* (or an I/O error of the read).
LocalDownload ==
    /\ \E key \in StorageKeys :
          \/ /\ task' = [task EXCEPT !["t1"] =
                            StorageCall("download", key, << >>,
                                        IF StorageDownload(blobs, key) = None
                                        THEN Err("NotFound")
                                        ELSE Ok(StorageDownload(blobs, key)[1]))]
             /\ NoFault
          \/ /\ StorageDownload(blobs, key) # None
             /\ task' = [task EXCEPT !["t1"] =
                            StorageCall("download", key, << >>, Err("IoError"))]
             /\ Fault
    /\ UNCHANGED << use_s3, files, blobs, nextId, accepted, gone, traversed >>

\* local.rs 67-76: the file is removed if the path exists; Ok either way
\* (or an I/O error of the removal, which leaves the file).
LocalDelete ==
    /\ \E key \in StorageKeys :
          \/ /\ blobs' = StorageDelete(blobs, key)
             /\ task' = [task EXCEPT !["t1"] = StorageCall("delete", key, << >>, Ok(<< >>))]
             /\ NoFault
          \/ /\ StorageDownload(blobs, key) # None
             /\ blobs' = blobs
             /\ task' = [task EXCEPT !["t1"] =
                            StorageCall("delete", key, << >>, Err("IoError"))]
             /\ Fault
    /\ UNCHANGED << use_s3, files, nextId, accepted, gone, traversed >>

StorageNext == LocalUpload \/ LocalDownload \/ LocalDelete

StorageSpec == StorageInit /\ [][StorageNext]_vars

(***************************************************************************)
(* Properties.                                                             *)
(***************************************************************************)
\* The file names the requests carry.
NamesSent == { f.file_name[1] : f \in { g \in FileParts : g.file_name # None } }

\* The position of the last '.' of a name.
LastDot(name) == LastIndexOf(name, ".", Len(name))

\* The text after the last '.' of a name, lowercased.
LowerSuffix(name) == to_lowercase(SubSeq(name, LastDot(name) + 1, Len(name)))

\* Per name: None when it has no '.' or only a leading one, else the
\* lowercased text after its last '.'.
SuffixOf == [ name \in NamesSent |->
                IF LastDot(name) <= 1 THEN None ELSE Some(LowerSuffix(name)) ]

\* The form fails the presence, the size or the extension check.
FailsCheck(form) ==
    \/ form.file_data = None
    \/ form.original_filename = None
    \/ Len(form.file_data[1]) > max_file_size
    \/ SuffixOf[form.original_filename[1]] = None
    \/ SuffixOf[form.original_filename[1]][1] \notin allowed_extensions

\* The objects of the backend under files/.
FilesObjects(store) == { o \in DOMAIN store : starts_with(o, ObjectOf("files") \o "/") }

\* What the backend holds at the location a record names.
BlobOf(store, file) == StorageDownload(store, NormalizePath(file.storage_type, file.file_path))

\* C1 (sequential dedup): an upload that passes the checks and starts after an
\* upload of the same bytes was answered 200, while the record of that answer
\* still exists, answers 200 with the id of that record (when its probe does
\* not fail) and adds nothing: the rows and the objects of the backend are
\* what they were, exactly one row carries the checksum, and (in a run without
\* faults and without a key that resolves to another object) that row's
\* location holds the bytes.
C1_SequentialDedup ==
    [][ \A r \in Slots : \A a \in accepted :
          ( /\ task[r].pc = "idle"
            /\ task'[r].req.op = "upload"
            /\ task'[r].req.form.file_data = Some(a.data)
            /\ ~FailsCheck(task'[r].req.form)
            /\ FindById(files, a.id) # {}
            /\ faults' = faults )
          => /\ task'[r].pc = "done"
             /\ task'[r].resp.status = 200
             /\ task'[r].resp.json[1].id = a.id
             /\ files' = files
             /\ blobs' = blobs
             /\ Cardinality({ f \in files' : f.checksum = Some(calculate_sha256(a.data)) }) = 1
             /\ (faults = 0 /\ ~traversed)
                    => \A f \in FindById(files', a.id) : BlobOf(blobs', f) = Some(a.data)
      ]_vars

\* The second of two uploads of the same bytes has been answered with the id
\* of the first; there is one row and one object under files/.
C1_Witness ==
    \E r \in Slots : \E a, b \in accepted :
        /\ task[r].pc = "done"
        /\ task[r].req.op = "upload"
        /\ task[r].resp.status = 200
        /\ ~a.dedup /\ b.dedup
        /\ a.id = b.id /\ a.data = b.data
        /\ task[r].resp.json[1].id = a.id
        /\ task[r].req.form.file_data = Some(b.data)
        /\ Cardinality(files) = 1
        /\ Cardinality(FilesObjects(blobs)) = 1
        /\ nextId = 3

\* C2 as stated (round trip, dedup included): after any upload answered 200
\* with id i for bytes B, MIME M and filename N, and no DELETE of i since, in
\* a run without faults and without keys resolving elsewhere, GET /files/{i}
\* returns original_filename N and size len(B) and the download returns B
\* with Content-Type M.
C2_RoundTripAnyUpload ==
    \A r \in Slots : \A a \in accepted :
        ( /\ task[r].pc = "done"
          /\ task[r].req.id = a.id
          /\ a.id \notin gone
          /\ faults = 0
          /\ ~traversed )
        => /\ task[r].req.op = "get_file"
                => /\ task[r].resp.status = 200
                   /\ task[r].resp.json[1].original_filename = a.name
                   /\ task[r].resp.json[1].size = Len(a.data)
           /\ task[r].req.op = "download"
                => /\ task[r].resp.status = 200
                   /\ task[r].resp.body = Some(a.data)
                   /\ task[r].resp.content_type = unwrap_or(a.mime, "application/octet-stream")

\* C2 (round trip), amended: for an upload answered 200 that committed a new
\* record i (bytes B, MIME M, filename N), while no DELETE of i has answered
\* 204: GET /files/{i} answers 200 with original_filename N and size len(B)
\* unless its query fails; a download that answers 200 carries Content-Type M
\* and, when no blob key resolved to another object, the bytes B; without
\* faults and such keys the download does answer 200.  For an upload answered
\* through the dedup short-circuit only the bytes are promised.
C2_RoundTrip ==
    \A r \in Slots : \A a \in accepted :
        ( /\ task[r].pc = "done"
          /\ task[r].req.id = a.id
          /\ a.id \notin gone )
        => /\ (task[r].req.op = "get_file" /\ ~a.dedup)
                => \/ task[r].resp = DatabaseError
                   \/ /\ task[r].resp.status = 200
                      /\ task[r].resp.json[1].original_filename = a.name
                      /\ task[r].resp.json[1].size = Len(a.data)
           /\ (task[r].req.op = "download" /\ task[r].resp.status = 200)
                => /\ ~a.dedup => task[r].resp.content_type = a.mime[1]
                   /\ ~traversed => task[r].resp.body = Some(a.data)
           /\ (task[r].req.op = "download" /\ faults = 0 /\ ~traversed)
                => task[r].resp.status = 200

\* A download of a record answered with the bytes and the MIME of the upload
\* that created it, after an upload of the same bytes under another name and
\* MIME was answered with the same id.
C2_Witness ==
    \E r \in Slots : \E a, b \in accepted :
        /\ ~a.dedup /\ b.dedup
        /\ a.id = b.id /\ a.name # b.name /\ a.mime # b.mime
        /\ task[r].pc = "done"
        /\ task[r].req = IdReq("download", a.id)
        /\ task[r].resp.status = 200
        /\ task[r].resp.body = Some(a.data)
        /\ task[r].resp.content_type = a.mime[1]
        /\ a.id \notin gone

\* What the backend holds at the location of a record's thumbnail.
ThumbOf(store, file) ==
    StorageDownload(store, NormalizePath(file.storage_type, file.thumbnail_path[1]))

\* C3 (delete cascade): when DELETE /files/{id} has answered 204 in a run
\* without faults, the backend holds neither the primary blob nor, if the
\* record had a thumbnail_path, the thumbnail blob of the deleted record, on
\* both backends.
C3_DeleteCascade ==
    \A r \in Slots :
        ( /\ task[r].pc = "done"
          /\ task[r].req.op = "delete"
          /\ task[r].resp.status = 204
          /\ faults = 0 )
        => /\ BlobOf(blobs, task[r].loc[1]) = None
           /\ task[r].loc[1].thumbnail_path # None => ThumbOf(blobs, task[r].loc[1]) = None

\* C4 (delete is final): a GET, download, thumbnail or DELETE on an id whose
\* DELETE answered 204 before the request started answers 404 (500 only when
\* its query fails); no row ever carries such an id again, and no upload is
\* answered with it: the same bytes uploaded again get a fresh id.
C4_DeleteIsFinal ==
    [][ /\ \A r \in Slots :
              ( /\ task[r].pc = "idle"
                /\ task'[r].req.op \in { "get_file", "download", "thumbnail", "delete" }
                /\ task'[r].req.id \in gone )
              => /\ task'[r].pc = "done"
                 /\ \/ task'[r].resp = NotFound
                    \/ task'[r].resp = DatabaseError /\ faults' > faults
        /\ \A i \in gone' : FindById(files', i) = {}
        /\ \A r \in Slots :
              ( /\ task'[r].pc = "done"
                /\ task'[r].req.op = "upload"
                /\ task'[r].resp.status = 200 )
              => task'[r].resp.json[1].id \notin gone'
      ]_vars

\* A record was deleted, its bytes were uploaded again and answered with
\* another id, and a later request on the deleted id was answered 404.
C4_Witness ==
    \E r \in Slots : \E a, b \in accepted :
        /\ a.id \in gone
        /\ b.id \notin gone
        /\ a.data = b.data
        /\ FindById(files, a.id) = {}
        /\ FindById(files, b.id) # {}
        /\ task[r].pc = "done"
        /\ task[r].req.op \in { "get_file", "download", "thumbnail", "delete" }
        /\ task[r].req.id = a.id
        /\ task[r].resp = NotFound

\* C5 (validation is pure): an upload whose form fails the presence, size or
\* extension check is answered 400, 413 or 415 in the step it starts, with no
\* database or storage call: the rows and the objects are unchanged, no id is
\* minted and no infrastructure fault can have struck.
C5_ValidationIsPure ==
    [][ \A r \in Slots :
          ( /\ task[r].pc = "idle"
            /\ task'[r].req.op = "upload"
            /\ FailsCheck(task'[r].req.form)
            /\ task'[r].resp.error \notin { "Failed to parse multipart form",
                                            "Failed to read the file" } )
          => /\ task'[r].pc = "done"
             /\ task'[r].resp.status \in { 400, 413, 415 }
             /\ files' = files
             /\ blobs' = blobs
             /\ nextId' = nextId
             /\ faults' = faults
      ]_vars

\* An oversize upload was answered 413 while the service holds a record.
C5_Witness ==
    \E r \in Slots :
        /\ task[r].pc = "done"
        /\ task[r].req.op = "upload"
        /\ task[r].req.form.file_size > max_file_size
        /\ task[r].resp.status = 413
        /\ task[r].loc = None
        /\ files # {}
        /\ nextId = 2

\* C6 (no partial metadata): a row appears only in the last step of an upload
\* that answers 200, one row, under the id the request minted, and the blob
\* of that row was written before: the backend already holds the request's
\* bytes at the row's location.  Every step in which an upload ends otherwise
\* leaves the rows unchanged; a failed primary blob write answers 500
\* "Failed to upload file".
C6_NoPartialMetadata ==
    [][ /\ (files' \ files # {})
              => \E r \in Slots : \E f \in files' :
                    /\ task[r].pc = "upload_insert"
                    /\ task'[r].pc = "done"
                    /\ task'[r].resp.status = 200
                    /\ files' = files \cup { f }
                    /\ f \notin files
                    /\ f.id = task[r].loc[1].file_id
                    /\ BlobOf(blobs, f) = task[r].req.form.file_data
        /\ \A r \in Slots :
              ( /\ task'[r].req.op = "upload"
                /\ task[r].pc # "done"
                /\ task'[r].pc = "done"
                /\ task'[r].resp.status # 200 )
              => files' = files
        /\ \A r \in Slots :
              ( /\ task[r].pc = "upload_blob"
                /\ task'[r].pc = "done"
                /\ task'[r].resp.status # 0 )
              => task'[r].resp = ErrorResp(500, "Failed to upload file")
      ]_vars

\* An upload ended with 500 "Failed to upload file"; the rows are those of
\* before, each with its blob.
C6_Witness ==
    \E r \in Slots :
        /\ task[r].pc = "done"
        /\ task[r].req.op = "upload"
        /\ task[r].resp = ErrorResp(500, "Failed to upload file")
        /\ Cardinality(files) = 1
        /\ \A f \in files : f.id # task[r].loc[1].file_id /\ BlobOf(blobs, f) # None

C9_AbsentMimeDefaults ==
    \A r \in Slots :
        ( /\ task[r].pc = "done"
          /\ task[r].req.op = "upload"
          /\ ~FailsCheck(task[r].req.form)
          /\ task[r].req.form.mime_type = None
          /\ faults = 0 )
        => /\ task[r].resp.status = 200
           /\ task[r].loc # None
                => \E f \in files : /\ f.id = task[r].loc[1].file_id
                                    /\ f.mime_type = "application/octet-stream"

\* C10 (thumbnails are advisory): the thumbnail step of an upload always
\* hands over to the insert (unless the client is gone); it sets
\* thumbnail_path only when the thumbnail upload succeeded, so that the
\* backend holds the rendered image under thumbnails/{id}.jpg, and leaves it
\* absent after a failure and for bytes that are no image; the insert then
\* answers 200 with a row of that thumbnail_path unless the database fails.
C10_ThumbnailsAdvisory ==
    [][ \A r \in Slots :
          /\ (task[r].pc = "upload_thumb" /\ task'[r] # task[r])
                => \/ /\ task'[r].pc = "upload_insert"
                      /\ task'[r].loc[1].thumbnail_path # None
                            => /\ task'[r].loc[1].thumbnail_path
                                     = Some(ThumbKey(task[r].loc[1].file_id))
                               /\ StorageDownload(blobs', ThumbKey(task[r].loc[1].file_id))
                                     = Some(RenderThumbnail(task[r].req.form.file_data[1]))
                               /\ faults' = faults
                      /\ (faults' > faults \/ ~DecodableImage(task[r].req.form.file_data[1]))
                            => task'[r].loc[1].thumbnail_path = None
                   \/ /\ task'[r].pc = "done"
                      /\ task'[r].resp = NoResp
                      /\ faults' > faults
          /\ (task[r].pc = "upload_insert" /\ task'[r].pc = "done" /\ faults' = faults)
                => /\ task'[r].resp.status = 200
                   /\ \E f \in files' \ files :
                          /\ f.id = task[r].loc[1].file_id
                          /\ f.thumbnail_path = task[r].loc[1].thumbnail_path
      ]_vars

\* An image upload whose thumbnail upload failed was answered 200, and its
\* row has no thumbnail_path.
C10_Witness ==
    \E r \in Slots :
        /\ task[r].pc = "done"
        /\ task[r].req.op = "upload"
        /\ task[r].req.form.mime_type # None
        /\ is_file_mime_type(task[r].req.form.mime_type[1])
        /\ DecodableImage(task[r].req.form.file_data[1])
        /\ task[r].resp.status = 200
        /\ task[r].loc # None
        /\ faults = 1
        /\ \E f \in files : f.id = task[r].loc[1].file_id /\ f.thumbnail_path = None

\* The upload was sent with a MIME beginning image/.
SentAsImage(a) == a.mime # None /\ starts_with(a.mime[1], "image/")

\* C11 as stated (thumbnail presence): after any upload answered 200 with id
\* i and sent with a MIME beginning image/, while i is not deleted and in a
\* run without faults, GET /files/{i} carries a thumbnail_url and
\* GET /files/{i}/thumbnail answers 200 with Content-Type image/jpeg.
C11_ThumbnailForEveryImageMime ==
    \A r \in Slots : \A a \in accepted :
        ( /\ SentAsImage(a)
          /\ task[r].pc = "done"
          /\ task[r].req.id = a.id
          /\ a.id \notin gone
          /\ faults = 0
          /\ ~traversed )
        => /\ task[r].req.op = "get_file"
                => /\ task[r].resp.status = 200
                   /\ task[r].resp.json[1].thumbnail_url # None
           /\ task[r].req.op = "thumbnail"
                => /\ task[r].resp.status = 200
                   /\ task[r].resp.content_type = "image/jpeg"

\* C11 (thumbnail presence), amended: for an upload answered 200 that
\* committed a new record i and was sent with a MIME beginning image/, while
\* i is not deleted: when the bytes decode as an image and no fault struck,
\* GET /files/{i} carries thumbnail_url "/files/{i}/thumbnail" and the
\* thumbnail GET answers 200; whenever the thumbnail GET answers 200 it sends
\* Content-Type image/jpeg and the rendered JPEG of the uploaded bytes; when
\* the bytes do not decode, the metadata has no thumbnail_url and the
\* thumbnail GET answers 404.
C11_ThumbnailPresence ==
    \A r \in Slots : \A a \in accepted :
        ( /\ SentAsImage(a)
          /\ ~a.dedup
          /\ task[r].pc = "done"
          /\ task[r].req.id = a.id
          /\ a.id \notin gone )
        => /\ (task[r].req.op = "get_file" /\ task[r].resp.status = 200)
                => /\ (DecodableImage(a.data) /\ faults = 0)
                        => task[r].resp.json[1].thumbnail_url
                              = Some("/files/" \o IdText(a.id) \o "/thumbnail")
                   /\ ~DecodableImage(a.data)
                        => task[r].resp.json[1].thumbnail_url = None
           /\ task[r].req.op = "thumbnail"
                => /\ (DecodableImage(a.data) /\ faults = 0 /\ ~traversed)
                        => task[r].resp.status = 200
                   /\ task[r].resp.status = 200
                        => /\ task[r].resp.content_type = "image/jpeg"
                           /\ task[r].resp.body = Some(RenderThumbnail(a.data))
                           /\ SubSeq(task[r].resp.body[1], 1, 2) = << 255, 216 >>
                   /\ ~DecodableImage(a.data)
                        => \/ task[r].resp = ErrorResp(404, "Thumbnail not available")
                           \/ task[r].resp = DatabaseError

\* The thumbnail of an uploaded PNG was fetched: 200, image/jpeg, FF D8.
C11_Witness ==
    \E r \in Slots : \E a \in accepted :
        /\ SentAsImage(a) /\ ~a.dedup /\ DecodableImage(a.data)
        /\ task[r].pc = "done"
        /\ task[r].req = IdReq("thumbnail", a.id)
        /\ task[r].resp.status = 200
        /\ task[r].resp.content_type = "image/jpeg"
        /\ SubSeq(task[r].resp.body[1], 1, 2) = << 255, 216 >>

\* C12 (thumbnail only for images): every row whose thumbnail_path is set has
\* a mime_type beginning image/; for a row with any other mime_type the
\* thumbnail_path is absent, GET /files/{id} carries no thumbnail_url and
\* GET /files/{id}/thumbnail answers 404 (500 only when its query fails).
C12_ThumbnailOnlyForImages ==
    /\ \A f \in files :
          f.thumbnail_path # None => starts_with(f.mime_type, "image/")
    /\ \A r \in Slots : \A f \in files :
          ( /\ ~starts_with(f.mime_type, "image/")
            /\ task[r].pc = "done"
            /\ task[r].req.id = f.id )
          => /\ f.thumbnail_path = None
             /\ (task[r].req.op = "get_file" /\ task[r].resp.status = 200)
                  => task[r].resp.json[1].thumbnail_url = None
             /\ task[r].req.op = "thumbnail"
                  => \/ task[r].resp = ErrorResp(404, "Thumbnail not available")
                     \/ task[r].resp = DatabaseError

\* The thumbnail of a record uploaded as text/plain, with bytes that would
\* decode as an image, was asked for and answered 404.
C12_Witness ==
    \E r \in Slots : \E f \in files :
        /\ f.mime_type = "text/plain"
        /\ BlobOf(blobs, f) # None
        /\ DecodableImage(BlobOf(blobs, f)[1])
        /\ f.thumbnail_path = None
        /\ task[r].pc = "done"
        /\ task[r].req = IdReq("thumbnail", f.id)
        /\ task[r].resp = ErrorResp(404, "Thumbnail not available")

\* C13 (delete ordering under failure): a DELETE that leaves the primary
\* delete with a response answers 500 "Failed to delete file from storage"
\* and changes neither the objects (the thumbnail included) nor the rows; the
\* thumbnail step hands over to the row delete whether it failed or not, and
\* the row delete then answers 204 and removes the row unless the statement
\* fails; a row is removed only by the DELETE on its id, after the delete of
\* its primary blob succeeded: the backend no longer holds that blob.
C13_DeleteOrdering ==
    [][ /\ \A r \in Slots :
              ( /\ task[r].pc = "delete_blob"
                /\ task'[r].pc = "done"
                /\ task'[r].resp.status # 0 )
              => /\ task'[r].resp = ErrorResp(500, "Failed to delete file from storage")
                 /\ files' = files
                 /\ blobs' = blobs
        /\ \A r \in Slots :
              ( /\ task[r].pc = "delete_thumb"
                /\ task'[r] # task[r]
                /\ task'[r].resp.status # 0 \/ task'[r].pc # "done" )
              => /\ task'[r].pc = "delete_row"
                 /\ files' = files
        /\ \A r \in Slots :
              ( /\ task[r].pc = "delete_row"
                /\ task'[r].pc = "done"
                /\ faults' = faults )
              => /\ task'[r].resp.status = 204
                 /\ FindById(files', task[r].req.id) = {}
        /\ \A f \in files \ files' :
              \E r \in Slots :
                  /\ task[r].pc = "delete_row"
                  /\ task[r].req.id = f.id
                  /\ BlobOf(blobs, f) = None
      ]_vars

\* On S3 the deletion of a thumbnail failed: the DELETE answered 204, the row
\* is removed and the thumbnail is still there.
C13_Witness ==
    \E r \in Slots :
        /\ use_s3
        /\ task[r].pc = "done"
        /\ task[r].req.op = "delete"
        /\ task[r].resp.status = 204
        /\ task[r].loc[1].thumbnail_path # None
        /\ ThumbOf(blobs, task[r].loc[1]) # None
        /\ BlobOf(blobs, task[r].loc[1]) = None
        /\ FindById(files, task[r].req.id) = {}
        /\ faults = 1

(***************************************************************************)
(* C14.  Dedup race.  Under overlapping requests, when an upload reaches   *)
(* its INSERT while a record of the same checksum is already stored (so    *)
(* both probes ran before either insert), the INSERT still stores the row  *)
(* and answers 200 with the new id: afterwards there are two records of    *)
(* the same checksum with distinct ids and distinct blob keys              *)
(* files/{id1}..., files/{id2}..., and, where nothing was deleted or       *)
(* overwritten meanwhile, both blobs hold the bytes.                       *)
(***************************************************************************)
\* Slot r performs its INSERT in this step, and no fault makes it fail.
InsertsNow(r) ==
    /\ task[r].pc = "upload_insert"
    /\ task'[r].pc = "done"
    /\ faults' = faults

\* No DELETE has happened or is in flight, and no write left its key.
Undisturbed ==
    /\ gone = {}
    /\ ~traversed'
    /\ \A q \in Slots : task[q].req.op # "delete"

C14_DedupRace ==
    [][ \A r \in Slots :
          InsertsNow(r) =>
            LET row == NewFile(task[r].req.form, task[r].loc[1])
            IN  \A f \in files :
                  f.checksum = row.checksum =>
                    /\ files' = files \cup { row }
                    /\ row \notin files
                    /\ f.id # row.id
                    /\ task'[r].resp.status = 200
                    /\ task'[r].resp.json[1].id = row.id
                    /\ NormalizePath(f.storage_type, f.file_path)
                          # NormalizePath(row.storage_type, row.file_path)
                    /\ starts_with(NormalizePath(f.storage_type, f.file_path),
                                   "files/" \o IdText(f.id))
                    /\ starts_with(NormalizePath(row.storage_type, row.file_path),
                                   "files/" \o IdText(row.id))
                    /\ Undisturbed =>
                          /\ BlobOf(blobs', f) = Some(task[r].req.form.file_data[1])
                          /\ BlobOf(blobs', row) = Some(task[r].req.form.file_data[1])
      ]_vars

\* Two records with one checksum, distinct ids, both blobs stored, both
\* requests answered 200 with their own id.
C14_Witness ==
    \E f, g \in files :
      /\ f.id # g.id
      /\ f.checksum = g.checksum
      /\ BlobOf(blobs, f) # None
      /\ BlobOf(blobs, g) = BlobOf(blobs, f)
      /\ task["t1"].pc = "done" /\ task["t1"].resp.status = 200
      /\ task["t2"].pc = "done" /\ task["t2"].resp.status = 200
      /\ task["t1"].resp.json[1].id = f.id
      /\ task["t2"].resp.json[1].id = g.id
      /\ task["t1"].req.op = "upload" /\ task["t2"].req.op = "upload"

(***************************************************************************)
(* C15.  Path normalisation round trip.  For every record, on the Local    *)
(* backend (base "uploads") and on S3, the stored file_path stripped by    *)
(* the storage_type rule is exactly the key files/{filename} that ingest   *)
(* passed to storage.upload, and a set thumbnail_path stripped by the same *)
(* rule is thumbnails/{id}.jpg.  At the commit of the record the download  *)
(* of the stripped value returns the uploaded bytes (the rendered image    *)
(* for the thumbnail), and afterwards what it returns changes only by a    *)
(* storage.delete step or by an upload whose key resolves to another       *)
(* object (Local, ".." in the filename text); a download the handler       *)
(* answers 200 carries exactly what the stripped key holds.                *)
(***************************************************************************)
StripsToKey(f) ==
    /\ NormalizePath(f.storage_type, f.file_path) = BlobKey(f.filename)
    /\ f.storage_type = storage_type
    /\ f.file_path = (IF use_s3 THEN "s3://" ELSE "uploads/") \o BlobKey(f.filename)
    /\ f.thumbnail_path # None
         => NormalizePath(f.storage_type, f.thumbnail_path[1]) = ThumbKey(f.id)

\* This step is a storage.delete of some DELETE request.
StorageDeleteStep ==
    \E q \in Slots : /\ task[q].pc \in { "delete_blob", "delete_thumb" }
                     /\ task'[q].pc # task[q].pc

\* This step is a blob write under a key that resolves to another object.
TraversingWriteStep ==
    \E q \in Slots : /\ task[q].pc = "upload_blob"
                     /\ task'[q].pc # "upload_blob"
                     /\ Traverses(task[q].loc[1].file_path)

C15_PathNormalization ==
    [][ /\ files' # files => \A f \in files' : StripsToKey(f)'
        /\ \A r \in Slots :
              InsertsNow(r) =>
                LET row == NewFile(task[r].req.form, task[r].loc[1])
                    data == task[r].req.form.file_data[1]
                IN  /\ row \in files'
                    /\ NormalizePath(row.storage_type, row.file_path) = task[r].loc[1].file_path
                    /\ BlobOf(blobs', row) = Some(data)
                    /\ row.thumbnail_path # None
                         => ThumbOf(blobs', row) = Some(RenderThumbnail(data))
        /\ blobs' # blobs =>
              \A f \in files :
                /\ BlobOf(blobs', f) # BlobOf(blobs, f)
                     => StorageDeleteStep \/ TraversingWriteStep
                /\ (f.thumbnail_path # None /\ ThumbOf(blobs', f) # ThumbOf(blobs, f))
                     => StorageDeleteStep
        /\ \A r \in Slots :
              ( /\ task[r].pc = "download_fetch"
                /\ task'[r].pc = "done"
                /\ task'[r].resp # NoResp )
              => IF BlobOf(blobs, task[r].loc[1]) = None
                 THEN task'[r].resp.status = 500
                 ELSE \/ /\ task'[r].resp.status = 200
                         /\ task'[r].resp.body = BlobOf(blobs, task[r].loc[1])
                      \/ /\ task'[r].resp.status = 500
                         /\ faults' = faults + 1
      ]_vars

\* On the Local backend a record named through a filename text, with a
\* thumbnail, whose download was answered 200 with the bytes at its key.
C15_Witness ==
    /\ ~use_s3
    /\ \E f \in files :
         /\ f.thumbnail_path # None
         /\ f.filename = IdText(f.id) \o "_doc"
         /\ task["t1"].pc = "done"
         /\ task["t1"].req.op = "download"
         /\ task["t1"].req.id = f.id
         /\ task["t1"].resp.status = 200
         /\ task["t1"].resp.body = Some(PngData)
         /\ ThumbOf(blobs, f) = Some(RenderThumbnail(PngData))

(***************************************************************************)
(* C16.  Record lifecycle and read-only handlers.  Every step of GET       *)
(* /files, GET /files/{id}, GET /files/{id}/download, GET                  *)
(* /files/{id}/thumbnail and of an upload answered by the dedup            *)
(* short-circuit leaves the rows and the backend as they were; no step     *)
(* changes a field of an existing record; a record leaves the table only   *)
(* in the DELETE statement of a DELETE request on its own id; and no step  *)
(* of a DELETE on one id changes another record, its blob or its           *)
(* thumbnail.                                                              *)
(***************************************************************************)
ReadOnlyOps == { "get_file", "list_files", "download", "thumbnail" }

\* Slot r takes a handler step in this transition, and the request it serves.
Steps(r) == task'[r] # task[r] /\ task[r].pc # "done"
StepOp(r) == IF task[r].pc = "idle" THEN task'[r].req.op ELSE task[r].req.op
StepId(r) == IF task[r].pc = "idle" THEN task'[r].req.id ELSE task[r].req.id

\* Slot r is answered by the dedup short-circuit in this step.
DedupStep(r) ==
    /\ task[r].pc = "idle"
    /\ task'[r].pc = "done"
    /\ task'[r].req.op = "upload"
    /\ task'[r].resp.status = 200

ReadOnlyFrame ==
    \A r \in Slots :
      ((Steps(r) /\ StepOp(r) \in ReadOnlyOps) \/ DedupStep(r))
        => files' = files /\ blobs' = blobs

RecordsImmutable ==
    /\ \A f \in files : \A g \in files' : g.id = f.id => g = f
    /\ \A f \in files \ files' :
          \E r \in Slots : /\ StepOp(r) = "delete"
                           /\ StepId(r) = f.id
                           /\ task[r].pc = "delete_row"
                           /\ task'[r].resp.status = 204

DeleteTouchesOwnOnly ==
    \A r \in Slots :
      (Steps(r) /\ StepOp(r) = "delete")
        => \A f \in files :
             f.id # StepId(r)
               => /\ f \in files'
                  /\ BlobOf(blobs', f) = BlobOf(blobs, f)
                  /\ f.thumbnail_path # None => ThumbOf(blobs', f) = ThumbOf(blobs, f)

C16_ReadOnlyAndLifecycle ==
    [][ ReadOnlyFrame /\ RecordsImmutable /\ DeleteTouchesOwnOnly ]_vars

(***************************************************************************)
(* C17.  Filename derivation.  When ingest commits a new record with the   *)
(* fresh id u for a request whose file part has the validated extension e, *)
(* the stored filename is "{u}.{e}" if the request had no filename field   *)
(* or one with an empty (or unreadable) text, and "{u}_{C}" if it had a    *)
(* filename field with the non-empty text C, before or after the file      *)
(* field; the key given to storage.upload is "files/" followed by that     *)
(* filename, and the response carries id u, that filename and the url      *)
(* "/files/{u}".                                                           *)
(***************************************************************************)
\* The non-empty text of the filename field of a request, if it has one.
SentText(fields) ==
    LET texts == { fields[i].text : i \in { j \in DOMAIN fields : fields[j].name = "filename" } }
                   \ { None, Some("") }
    IN  IF texts = {} THEN None ELSE CHOOSE t \in texts : TRUE

\* The file part of a request.
SentFile(fields) == CHOOSE f \in { fields[i] : i \in DOMAIN fields } : f.name = "file"

ExpectedFilename(u, fields) ==
    IF SentText(fields) = None
    THEN IdText(u) \o "." \o SuffixOf[SentFile(fields).file_name[1]][1]
    ELSE IdText(u) \o "_" \o SentText(fields)[1]

C17_FilenameDerivation ==
    [][ \A r \in Slots :
          InsertsNow(r) =>
            LET form == task[r].req.form
                loc == task[r].loc[1]
                u == loc.file_id
                row == NewFile(form, loc)
                answer == task'[r].resp
            IN  /\ row \in files' /\ row.id = u
                /\ \A f \in files : f.id # u
                /\ \A fields \in FormsOver(PassingParts, PlainTexts \cup TraversalTexts) :
                      ParseMultipart(fields) = form
                        => /\ row.filename = ExpectedFilename(u, fields)
                           /\ loc.file_path = "files/" \o ExpectedFilename(u, fields)
                /\ \E fields \in FormsOver(PassingParts, PlainTexts \cup TraversalTexts) :
                      ParseMultipart(fields) = form
                /\ NormalizePath(row.storage_type, row.file_path) = "files/" \o row.filename
                /\ answer.status = 200
                /\ answer.json[1].id = u
                /\ answer.json[1].filename = row.filename
                /\ answer.json[1].url = "/files/" \o IdText(u)
      ]_vars

\* Two records side by side: one named by the extension, one by the text.
C17_Witness ==
    /\ \E f \in files : f.filename = "1.txt" /\ f.original_filename = "A.TXT"
    /\ \E g \in files : g.filename = "2_doc" /\ g.original_filename = "p.png"
    /\ task["t1"].pc = "done"
    /\ task["t1"].req.op = "upload"
    /\ task["t1"].resp.status = 200
    /\ task["t1"].resp.json[1].filename = "2_doc"
    /\ task["t1"].resp.json[1].url = "/files/2"

(***************************************************************************)
(* C18.  The list and the single-file endpoint agree.  Every entry of a    *)
(* GET /files answer is what GET /files/{id} answers for that record:      *)
(* thumbnail_url is "/files/{id}/thumbnail", with the leading slash, when  *)
(* the record has a thumbnail and absent otherwise, and download_url is    *)
(* "/files/{id}/download".                                                 *)
(***************************************************************************)
C18_ListAgreesWithSingle ==
    \A r \in Slots :
      ( /\ task[r].pc = "done"
        /\ task[r].req.op = "list_files"
        /\ task[r].resp.status = 200 )
      => /\ { e.id : e \in task[r].resp.json[1] } = { f.id : f \in files }
         /\ \A e \in task[r].resp.json[1] :
              \E f \in files :
                /\ f.id = e.id
                /\ e = FileResponse(f)
                /\ e.download_url = "/files/" \o IdText(f.id) \o "/download"
                /\ e.thumbnail_url = IF f.thumbnail_path = None THEN None
                                      ELSE Some("/files/" \o IdText(f.id) \o "/thumbnail")

(***************************************************************************)
(* C19.  Local storage contract.  A successful upload(k, b) returns the    *)
(* locator "{base}/{k}" and makes download(k) return exactly b, replacing  *)
(* what k held; download(k) answers NotFound exactly when k holds nothing, *)
(* and k holds something only through an upload to k that no delete(k)     *)
(* followed; delete(k) answers success, leaves k absent, changes nothing   *)
(* when k was absent, and a second delete(k) changes nothing more; upload  *)
(* and delete leave what every key other than k holds as it was.           *)
(***************************************************************************)
Held(store, key) == StorageDownload(store, key)

OtherKeysKept(key) ==
    \A other \in StorageKeys \ { key } : Held(blobs', other) = Held(blobs, other)

C19_LocalStorageContract ==
    [][ LET call == task'["t1"].req
            result == task'["t1"].resp
        IN  /\ (call.op = "upload" /\ result.ok)
                 => /\ result.value = Some(base_path \o "/" \o call.key)
                    /\ Held(blobs', call.key) = Some(call.content)
                    /\ OtherKeysKept(call.key)
            /\ call.op = "download"
                 => /\ blobs' = blobs
                    /\ Held(blobs, call.key) = None => result = Err("NotFound")
                    /\ result.ok => result.value = Held(blobs, call.key)
            /\ (call.op = "delete" /\ result.ok)
                 => /\ Held(blobs', call.key) = None
                    /\ Held(blobs, call.key) = None => blobs' = blobs
                    /\ StorageDelete(blobs', call.key) = blobs'
                    /\ OtherKeysKept(call.key)
            /\ (call.op = "delete" /\ Held(blobs, call.key) = None) => result.ok
      ]_vars

(***************************************************************************)
(* C20.  Check precedence in ingest.  An upload runs its checks in the     *)
(* order presence, size, extension, dedup probe, blob write, and the first *)
(* failing one decides the answer: without a file part 400 "No file        *)
(* provided" whatever else the request carries; an oversize payload 413    *)
(* also when its extension is missing or not allowed; a payload of the     *)
(* limit's size at most with a missing extension 400, with an extension    *)
(* not allowed 415, also when its bytes are those of a stored record (no   *)
(* dedup answer); a rejected upload writes nothing; and a payload passing  *)
(* the checks is answered by the probe before any blob is written.         *)
(***************************************************************************)
\* Slot r starts an upload in this step, and no fault is injected.
StartsUpload(r) ==
    /\ task[r].pc = "idle"
    /\ task'[r].req.op = "upload"
    /\ faults' = faults

\* The stored records with the bytes of the form.
Matching(form) == { f \in files : f.checksum = Some(calculate_sha256(form.file_data[1])) }

UploadAnswered(r) ==
    /\ task[r].pc = "done"
    /\ task[r].req.op = "upload"
    /\ task[r].resp.status = 200

StoredIds == { f.id : f \in files }

C21_HandedOutIdIsLive ==
    \A r \in Slots : UploadAnswered(r) => task[r].resp.json[1].id \in StoredIds

\* C21 as the code has it: the record named in a 200 answer is stored when
\* the handler's last database call (the probe that matched it, or the
\* INSERT) returns, and while the response is on the way it is stored unless
\* the DELETE statement of a DELETE on that id has run since.
C21_IdLiveAtDatabaseCall ==
    [][ \A r \in Slots :
          UploadAnswered(r)' =>
            LET i == task'[r].resp.json[1].id
            IN  IF task[r].pc # "done"
                THEN i \in StoredIds'
                ELSE i \in StoredIds' \/ i \in gone'
      ]_vars

\* The race: an upload answered by the dedup short-circuit with the id of a
\* record that the DELETE request in the other slot has removed meanwhile.
C21_Witness ==
    /\ UploadAnswered("t1")
    /\ \E a \in accepted : a.dedup /\ a.id = task["t1"].resp.json[1].id
                           /\ a.data = task["t1"].req.form.file_data[1]
    /\ task["t1"].resp.json[1].id \notin StoredIds
    /\ task["t2"].pc = "done"
    /\ task["t2"].req.op = "delete"
    /\ task["t2"].req.id = task["t1"].resp.json[1].id
    /\ task["t2"].resp.status = 204

(***************************************************************************)
(* C22.  Download versus delete.  With no storage or database call failing *)
(* on its own, every GET /files/{id}/download and GET                      *)
(* /files/{id}/thumbnail answers 200 or 404 and never 500, whatever a      *)
(* DELETE /files/{id} in flight does in between.                           *)
(***************************************************************************)
ReadsBlob(r) == task[r].req.op \in { "download", "thumbnail" }

C22_DownloadNever500 ==
    \A r \in Slots :
      (task[r].pc = "done" /\ ReadsBlob(r)) => task[r].resp.status \in { 200, 404 }

\* The storage.delete of a DELETE on id i has run.
DeleteReached(i) ==
    \/ i \in gone
    \/ \E q \in Slots : /\ task[q].req.op = "delete"
                        /\ task[q].req.id = i
                        /\ task[q].pc \in { "delete_thumb", "delete_row" }

\* What the handler in slot r is about to read, and what the upload that
\* created the record put there.
HeldFor(r) ==
    IF task[r].req.op = "download" THEN BlobOf(blobs, task[r].loc[1])
    ELSE ThumbOf(blobs, task[r].loc[1])

WrittenFor(r) ==
    { IF task[r].req.op = "download" THEN Some(a.data) ELSE Some(RenderThumbnail(a.data)) :
        a \in { b \in accepted : b.id = task[r].loc[1].id /\ ~b.dedup } }

\* C22 as the code has it: a lookup that finds no row answers 404; a handler
\* that found the row answers 200 with exactly the bytes under the record's
\* key (the bytes its upload wrote, where no ".." key was written), and 500
\* when the object is gone, which without faults happens only after the
\* storage.delete of a DELETE on that id (or on a record whose ".." key
\* names the same file).
C22_DownloadVersusDelete ==
    [][ \A r \in Slots :
          /\ (task[r].pc = "idle" /\ task'[r].pc = "done" /\ ReadsBlob(r)')
               => task'[r].resp.status = 404
          /\ (task[r].pc \in { "download_fetch", "thumbnail_fetch" } /\ task'[r].pc = "done")
               => IF HeldFor(r) # None
                  THEN /\ task'[r].resp.status = 200
                       /\ task'[r].resp.body = HeldFor(r)
                       /\ ~traversed => task'[r].resp.body \in WrittenFor(r)
                  ELSE /\ task'[r].resp.status = 500
                       /\ traversed \/ DeleteReached(task[r].loc[1].id)
      ]_vars

\* On S3, with no ".." key ever written: a download answered 500 while the
\* DELETE on the same id is past its storage.delete and before its DELETE
\* statement.
C22_Witness ==
    /\ use_s3
    /\ ~traversed
    /\ task["t1"].pc = "done"
    /\ task["t1"].req.op = "download"
    /\ task["t1"].resp.status = 500
    /\ task["t2"].req.op = "delete"
    /\ task["t2"].req.id = task["t1"].req.id
    /\ task["t2"].pc \in { "delete_thumb", "delete_row" }
    /\ task["t1"].req.id \in StoredIds

(***************************************************************************)
(* C23.  Overlapping deletes.  When two DELETE /files/{id} requests for    *)
(* the same existing id are in flight together, exactly one of them        *)
(* answers 204 and the other answers 404.                                  *)
(***************************************************************************)
DeleteAnswered(r) == task[r].pc = "done" /\ task[r].req.op = "delete"

\* C23 as claimed, for two answered DELETEs on one id of which at least one
\* found the record at its lookup.

C23_OneDeleteWins ==
    ( /\ DeleteAnswered("t1")
      /\ DeleteAnswered("t2")
      /\ task["t1"].req.id = task["t2"].req.id
      /\ task["t1"].loc # None \/ task["t2"].loc # None )
    => { task["t1"].resp.status, task["t2"].resp.status } = { 204, 404 }

\* C23 as the code has it: the only test is the lookup.  A DELETE whose
\* lookup finds the row goes through both storage deletes and its DELETE
\* statement and answers 204, whether or not the row is still there by then;
\* a DELETE whose lookup finds no row answers 404.  Afterwards the row is
\* gone.
C23_DeleteDecidedAtLookup ==
    [][ \A r \in Slots :
          /\ (task[r].pc = "idle" /\ task'[r].req.op = "delete")
               => IF FindById(files, task'[r].req.id) = {}
                  THEN task'[r].pc = "done" /\ task'[r].resp = NotFound
                  ELSE task'[r].pc = "delete_blob"
          /\ (task[r].pc = "delete_blob" /\ task'[r] # task[r])
               => task'[r].pc \in { "delete_thumb", "delete_row" }
          /\ (task[r].pc = "delete_thumb" /\ task'[r] # task[r])
               => task'[r].pc = "delete_row"
          /\ (task[r].pc = "delete_row" /\ task'[r] # task[r])
               => /\ task'[r].pc = "done"
                  /\ task'[r].resp.status = 204
                  /\ task[r].req.id \notin StoredIds'
      ]_vars

\* Both requests answered 204 for the same record.
C23_Witness ==
    /\ DeleteAnswered("t1")
    /\ DeleteAnswered("t2")
    /\ task["t1"].req.id = task["t2"].req.id
    /\ task["t1"].resp.status = 204
    /\ task["t2"].resp.status = 204
    /\ \E a \in accepted : a.id = task["t1"].req.id /\ ~a.dedup
    /\ task["t1"].req.id \notin StoredIds

(***************************************************************************)
(* C24.  No orphans without faults.  In a run of uploads and deletes in    *)
(* which no storage call and no database call failed and no request was    *)
(* cancelled, whenever no request is in flight the backend holds exactly   *)
(* the blobs the records refer to: every object under files/ is the blob   *)
(* of exactly one record, every object under thumbnails/ the thumbnail of  *)
(* exactly one record, and every record's blob, and its thumbnail if set,  *)
(* is present.                                                             *)
(***************************************************************************)
Quiet == faults = 0 /\ \A r \in Slots : task[r].pc = "idle"

\* The objects of the backend under thumbnails/.
ThumbObjects(store) == { o \in DOMAIN store : starts_with(o, ObjectOf("thumbnails") \o "/") }

\* The records whose blob, or thumbnail, is the object.
BlobOwners(o) ==
    { f \in files : ObjectOf(NormalizePath(f.storage_type, f.file_path)) = o }

ThumbOwners(o) ==
    { f \in files : /\ f.thumbnail_path # None
                    /\ ObjectOf(NormalizePath(f.storage_type, f.thumbnail_path[1])) = o }

C24_NoOrphans ==
    Quiet =>
      /\ \A o \in FilesObjects(blobs) : Cardinality(BlobOwners(o)) = 1
      /\ \A o \in ThumbObjects(blobs) : Cardinality(ThumbOwners(o)) = 1
      /\ \A f \in files :
           /\ BlobOf(blobs, f) # None
           /\ f.thumbnail_path # None => ThumbOf(blobs, f) # None

(***************************************************************************)
(* C25.  Blob isolation against the filename text.  On the Local backend,  *)
(* whatever text the client sends in the filename field, the blob write of *)
(* an upload goes to a file under uploads/files/ that is the blob of no    *)
(* stored record and leaves every stored record's blob as it was; no two   *)
(* records share a file; and no step of a DELETE on one id changes the     *)
(* blob of a record with another id.                                       *)
(***************************************************************************)
\* The file a record's blob is.
BlobObject(f) == ObjectOf(NormalizePath(f.storage_type, f.file_path))

C25_BlobIsolation ==
    [][ ~use_s3 =>
          /\ \A r \in Slots :
               (task[r].pc = "upload_blob" /\ blobs' # blobs)
                 => /\ starts_with(ObjectOf(task[r].loc[1].file_path), "uploads/files/")
                    /\ \A f \in files :
                         /\ BlobObject(f) # ObjectOf(task[r].loc[1].file_path)
                         /\ BlobOf(blobs', f) = BlobOf(blobs, f)
          /\ files' # files =>
               \A f, g \in files' : f.id # g.id => BlobObject(f) # BlobObject(g)
          /\ \A r \in Slots :
               (task[r].req.op = "delete" /\ blobs' # blobs)
                 => \A f \in files :
                      f.id # task[r].req.id => BlobOf(blobs', f) = BlobOf(blobs, f)
      ]_vars

====
